---- MODULE Spec2Model ----
(***************************************************************************)
(* A model of the weighted consistent-hashing continuum of twemproxy's     *)
(* hashkit, src/src/hashkit/nc_ketamap.c: ketamap_update and its two       *)
(* builders, ketamap_dispatch and ketamap_dispatch0.                       *)
(*                                                                         *)
(* uint32_t values of the code (continuum values, hashes) do not fit the   *)
(* integers of the model checker, so they are kept as natural numbers in   *)
(* base 10000, least significant limb first, without leading zero limbs:   *)
(* 0 is << >> and 0xffffffff = 4294967295 is <<7295, 9496, 42>>.           *)
(***************************************************************************)
EXTENDS Integers, Sequences, FiniteSets, TLC

\* ------------------------------------------------------------------------
\* Natural numbers of any size (the values of uint32_t and of the mantissas
\* of double).

\* the base of the limbs
Base == 100 * 100

RECURSIVE Norm(_)
\* strip the leading (most significant) zero limbs
Norm(a) ==
    IF a = << >> THEN << >>
    ELSE IF a[Len(a)] = 0 THEN Norm(SubSeq(a, 1, Len(a) - 1))
    ELSE a

RECURSIVE FromInt(_)
FromInt(n) == IF n = 0 THEN << >> ELSE <<n % Base>> \o FromInt(n \div Base)

RECURSIVE AddC(_, _, _)
AddC(a, b, c) ==
    IF a = << >> /\ b = << >> THEN (IF c = 0 THEN << >> ELSE <<c>>)
    ELSE LET x == IF a = << >> THEN 0 ELSE Head(a)
             y == IF b = << >> THEN 0 ELSE Head(b)
             s == x + y + c
         IN  <<s % Base>> \o AddC(IF a = << >> THEN a ELSE Tail(a),
                                  IF b = << >> THEN b ELSE Tail(b),
                                  s \div Base)

Add(a, b) == AddC(a, b, 0)

RECURSIVE SubB(_, _, _)
\* a - b - c for a >= b + c
SubB(a, b, c) ==
    IF a = << >> THEN << >>
    ELSE LET y == IF b = << >> THEN 0 ELSE Head(b)
             d == Head(a) - y - c
         IN  <<IF d < 0 THEN d + Base ELSE d>>
             \o SubB(Tail(a), IF b = << >> THEN b ELSE Tail(b),
                     IF d < 0 THEN 1 ELSE 0)

Sub(a, b) == Norm(SubB(a, b, 0))

RECURSIVE MulSmallC(_, _, _)
MulSmallC(a, k, c) ==
    IF a = << >> THEN FromInt(c)
    ELSE LET p == Head(a) * k + c
         IN  <<p % Base>> \o MulSmallC(Tail(a), k, p \div Base)

\* a * k for 0 <= k < Base
MulSmall(a, k) == Norm(MulSmallC(a, k, 0))

RECURSIVE Mul(_, _)
Mul(a, b) ==
    IF b = << >> THEN << >>
    ELSE Add(MulSmall(a, Head(b)),
             LET r == Mul(a, Tail(b)) IN IF r = << >> THEN r ELSE <<0>> \o r)

RECURSIVE DivSmallR(_, _, _)
\* the limbs of a, most significant first, divided by k with running remainder r:
\* <<quotient limbs (least significant first), remainder>>
DivSmallR(a, k, r) ==
    IF a = << >> THEN << << >>, r >>
    ELSE LET cur  == r * Base + a[Len(a)]
             rest == DivSmallR(SubSeq(a, 1, Len(a) - 1), k, cur % k)
         IN  << rest[1] \o <<cur \div k>>, rest[2] >>

\* a \div k and a % k for 0 < k < Base
DivSmall(a, k) == Norm(DivSmallR(a, k, 0)[1])
ModSmall(a, k) == DivSmallR(a, k, 0)[2]

RECURSIVE LessFrom(_, _, _)
LessFrom(a, b, i) ==
    IF i = 0 THEN FALSE
    ELSE IF a[i] # b[i] THEN a[i] < b[i]
    ELSE LessFrom(a, b, i - 1)

\* a < b
Less(a, b) ==
    IF Len(a) # Len(b) THEN Len(a) < Len(b) ELSE LessFrom(a, b, Len(a))

Leq(a, b) == ~Less(b, a)

RECURSIVE Pow2(_)
\* 2^n as an integer, for small n
Pow2(n) == IF n = 0 THEN 1 ELSE 2 * Pow2(n - 1)

\* the most binary digits shifted in one step: 2^ShiftStep < Base
ShiftStep == 12 + 1

RECURSIVE BitLenInt(_)
BitLenInt(n) == IF n = 0 THEN 0 ELSE 1 + BitLenInt(n \div 2)

RECURSIVE BitLen(_)
\* the number of binary digits of a
BitLen(a) ==
    IF a = << >> THEN 0
    ELSE IF Len(a) = 1 THEN BitLenInt(a[1])
    ELSE ShiftStep + BitLen(DivSmall(a, Pow2(ShiftStep)))

RECURSIVE ShiftLeft(_, _)
\* a * 2^n
ShiftLeft(a, n) ==
    IF a = << >> \/ n = 0 THEN a
    ELSE IF n <= ShiftStep THEN MulSmall(a, Pow2(n))
    ELSE ShiftLeft(MulSmall(a, Pow2(ShiftStep)), n - ShiftStep)

RECURSIVE ShiftRight(_, _)
\* a \div 2^n
ShiftRight(a, n) ==
    IF a = << >> \/ n = 0 THEN a
    ELSE IF n <= ShiftStep THEN DivSmall(a, Pow2(n))
    ELSE ShiftRight(DivSmall(a, Pow2(ShiftStep)), n - ShiftStep)

\* ------------------------------------------------------------------------
\* The arithmetic of double (IEEE 754 binary64, round to nearest, ties to
\* even) on the non-negative values the code computes: a finite value is
\* m * 2^e with m < 2^53 (or m = 2^53 after a carry), "nan" is 0/0.

DblBits == 53

Dbl(m, e) == [kind |-> "num", m |-> m, e |-> e]
DblNaN == [kind |-> "nan", m |-> << >>, e |-> 0]

IsOdd(a) == a # << >> /\ a[1] % 2 = 1

\* the double nearest to n * 2^e
RoundDyadic(n, e) ==
    LET len == BitLen(n) IN
    IF len <= DblBits THEN Dbl(n, e)
    ELSE LET s    == len - DblBits
             q    == ShiftRight(n, s)
             rem  == Sub(n, ShiftLeft(q, s))
             half == ShiftLeft(<<1>>, s - 1)
             up   == Less(half, rem) \/ (rem = half /\ IsOdd(q))
         IN  Dbl(IF up THEN Add(q, <<1>>) ELSE q, e + s)

\* (double) w / t for the integers 0 <= w and 0 <= t < Base, w <= t or t = 0
DblDivInt(w, t) ==
    IF t = 0 THEN DblNaN
    ELSE IF w = 0 THEN Dbl(<< >>, 0)
    ELSE LET k   == DblBits + 2 + BitLen(FromInt(t))
             num == ShiftLeft(FromInt(w), k)
             q   == DivSmall(num, t)
             r   == ModSmall(num, t)
             \* one more bit that records whether anything is left below q
             n   == Add(MulSmall(q, 2), IF r = 0 THEN << >> ELSE <<1>>)
         IN  RoundDyadic(n, 0 - (k + 1))

DblMul(a, b) ==
    IF a.kind = "nan" \/ b.kind = "nan" THEN DblNaN
    ELSE RoundDyadic(Mul(a.m, b.m), a.e + b.e)

Min(x, y) == IF x < y THEN x ELSE y

\* a - b for a >= b
DblSub(a, b) ==
    IF a.kind = "nan" \/ b.kind = "nan" THEN DblNaN
    ELSE LET e == Min(a.e, b.e)
         IN  RoundDyadic(Sub(ShiftLeft(a.m, a.e - e), ShiftLeft(b.m, b.e - e)), e)

DblAdd(a, b) ==
    IF a.kind = "nan" \/ b.kind = "nan" THEN DblNaN
    ELSE LET e == Min(a.e, b.e)
         IN  RoundDyadic(Add(ShiftLeft(a.m, a.e - e), ShiftLeft(b.m, b.e - e)), e)

\* the integer part of a finite double (the conversion to an unsigned
\* integer type truncates toward zero)
DblTrunc(a) == IF a.e >= 0 THEN ShiftLeft(a.m, a.e) ELSE ShiftRight(a.m, 0 - a.e)

DblHalf == Dbl(<<1>>, 0 - 1)

\* ------------------------------------------------------------------------
\* Bounds of the model.

\* a pool has NServer or NServer + 1 servers
NServer == 2
\* the server weights are LowWeight and 100, 200, .. 100 * MaxWeightUnits
LowWeight == 40
MaxWeightUnits == 2
\* pool->ketama_points is in 0 .. MaxKetamaPoints
MaxKetamaPoints == 1
\* the hash function takes its values in 0 .. MaxHash
MaxHash == 2
\* the clock runs from 0 to MaxTime
MaxTime == 1
\* the continuums dispatch is tried on alone have 1 .. MaxLen entries
MaxLen == 4
\* # rebuilds the history of a pool keeps
MaxBuilds == 2

Weights == {LowWeight} \cup {100 * k : k \in 1..MaxWeightUnits}
HashValue == 0..MaxHash

KETAMAP_DISPATCH_MAX_POINT == <<7295, 9496, 42>>

VARIABLES
    nserver,            \* array_n(&pool->server)
    weight,             \* server->weight of each server
    ketama_points,      \* pool->ketama_points
    auto_eject_hosts,   \* pool->auto_eject_hosts
    crc_add,            \* the hash function the points are chained with
    nan_u32,            \* what this build's conversion of NaN to uint32_t gives
    next_retry,         \* server->next_retry of each server
    now,                \* the clock, in usec
    continuum,          \* the entries pool->continuum[0 .. ncontinuum - 1]
    nalloc,             \* # entries pool->continuum is allocated for
    ncontinuum,         \* pool->ncontinuum
    nserver_continuum,  \* pool->nserver_continuum
    nlive_server,       \* pool->nlive_server
    total_weight,       \* pool->total_weight
    next_rebuild,       \* pool->next_rebuild
    rstatus,            \* what the last ketamap_update returned
    key_hash,           \* the hash last dispatched
    routed,             \* the position of the entry the last dispatch returned
    builds              \* history: what the last rebuilds that returned NC_OK left

config == <<nserver, weight, ketama_points, auto_eject_hosts, crc_add, nan_u32>>
pool == <<continuum, nalloc, ncontinuum, nserver_continuum, nlive_server,
          total_weight, next_rebuild>>
vars == <<config, next_retry, now, pool, rstatus, key_hash, routed, builds>>

Server == 0..(nserver - 1)

\* an entry that names its server from 1
EntryFromOne(i, v) == [index |-> i + 1, value |-> v]

\* struct continuum: the server's position in the server list and the point
Entry(i, v) == [index |-> i, value |-> v]

\* ------------------------------------------------------------------------
\* ketamap_dispatch

\* a search that returns the entry it hits, whatever entries of the same value
\* are before it
RewindNone(c, middle, hash) == middle

RECURSIVE Rewind(_, _, _)
\* while (middle != begin && (middle - 1)->value == hash) --middle;
Rewind(c, middle, hash) ==
    IF middle # 0 /\ c[middle].value = hash THEN Rewind(c, middle - 1, hash)
    ELSE middle

RECURSIVE Search(_, _, _, _)
\* the loop of ketamap_dispatch over the positions left .. right - 1 (from 0):
\* the position it returns from, or the final right
Search(c, left, right, hash) ==
    IF left < right
    THEN LET middle == left + (right - left) \div 2 IN
         IF Less(c[middle + 1].value, hash) THEN Search(c, middle + 1, right, hash)
         ELSE IF Less(hash, c[middle + 1].value) THEN Search(c, left, middle, hash)
         ELSE Rewind(c, middle, hash)
    ELSE right

\* the position (from 0) of the entry ketamap_dispatch returns
ketamap_dispatch(c, n, hash) ==
    LET right == Search(c, 0, n, hash) IN IF right = n THEN 0 ELSE right

\* ------------------------------------------------------------------------
\* ketamap_dispatch0

\* the results of the conversion of NaN to uint32_t a build may give
NaNToU32 == {<< >>, KETAMAP_DISPATCH_MAX_POINT}

RECURSIVE ToSmall(_)
\* a number below 2^16 as an integer
ToSmall(a) == IF a = << >> THEN 0 ELSE a[1] + Base * ToSmall(Tail(a))

\* crc32 = (hash >> 16) & 0x00007fffU
Fold(hash) == ToSmall(ShiftRight(hash, 16)) % Pow2(15)

\* point = (double) point / total_weight * KETAMAP_DISPATCH_MAX_POINT + 0.5,
\* converted to unsigned int; with total_weight = 0 the quotient is not a
\* number and the conversion is undefined
Rescale(point, total) ==
    LET d == DblAdd(DblMul(DblDivInt(point, total),
                           Dbl(KETAMAP_DISPATCH_MAX_POINT, 0)), DblHalf)
    IN  IF d.kind = "nan" THEN NaNToU32 ELSE {DblTrunc(d)}

\* a dispatch that leaves the point as it was rescaled
IncrementNone(point) == point

\* point += 1 in unsigned int: 0xffffffff wraps around to 0
Increment(point) ==
    IF point = KETAMAP_DISPATCH_MAX_POINT THEN << >> ELSE Add(point, <<1>>)

\* the process is killed
Killed == 0 - 2

\* the positions (from 0) of the entries ketamap_dispatch0 can return. With
\* total_weight = 0 the modulus crc32 % total_weight is undefined: it traps
\* (SIGFPE) where the division instruction traps, and gives some point
\* elsewhere.
ketamap_dispatch0(c, n, hash, total) ==
    IF total = 0
    THEN {Killed} \cup {ketamap_dispatch(c, n, Increment(point)) :
                            point \in Rescale(0, total)}
    ELSE {ketamap_dispatch(c, n, Increment(point)) :
              point \in Rescale(Fold(hash) % total, total)}

\* ------------------------------------------------------------------------
\* ketamap_update_with_ketama_points

\* (int) or (uint32_t) of x / 100.0 + 0.5 for an integer x >= 0. The quotient
\* is exact when x is a multiple of 50; otherwise it is at least 1/100 away
\* from the nearest k + 0.5, which no rounding of a double bridges: the result
\* is the integer part of (x + 50) / 100.
RoundHundredth(x) == (x + 50) \div 100

\* count = pool->ketama_points * server->weight / 100.0 + 0.5
PointCount(w) == RoundHundredth(ketama_points * w)

\* hash_crc32a_add(crc32, point_buf, 4), crc32 the hash of the name of
\* server s and point_buf the bytes of point
hash_crc32a_add(s, point) == crc_add[s][point]

RECURSIVE SkipEqual(_, _, _)
\* while (point_index != continuum_index && point == continuum[point_index].value)
\*     point_index++;
SkipEqual(c, point_index, point) ==
    IF point_index # Len(c) /\ point = c[point_index + 1].value
    THEN SkipEqual(c, point_index + 1, point)
    ELSE point_index

\* the entries c[0 .. continuum_index - 1] after one more point is put in
InsertPoint(c, server_index, point) ==
    IF Len(c) = 0 THEN <<Entry(server_index, point)>>
    ELSE LET dispatched == ketamap_dispatch(c, Len(c), point) IN
         IF dispatched = 0 /\ Less(c[1].value, point)
         THEN Append(c, Entry(server_index, point))
         ELSE LET point_index == SkipEqual(c, dispatched, point) IN
              SubSeq(c, 1, point_index) \o <<Entry(server_index, point)>>
              \o SubSeq(c, point_index + 1, Len(c))

RECURSIVE AddPoints(_, _, _, _, _)
\* for (i = 0; i < count; ++i) { point = hash_crc32a_add(..); insert }
AddPoints(c, server_index, point, i, count) ==
    IF i = count THEN c
    ELSE LET p == hash_crc32a_add(server_index, point) IN
         AddPoints(InsertPoint(c, server_index, FromInt(p)), server_index, p,
                   i + 1, count)

RECURSIVE WithPointsAll(_, _, _, _)
\* a builder that takes the failed servers too
WithPointsAll(c, server_index, retry, t) ==
    IF server_index = nserver THEN c
    ELSE WithPointsAll(AddPoints(c, server_index, 0, 0, PointCount(weight[server_index])),
                       server_index + 1, retry, t)

RECURSIVE WithPointsEjecting(_, _, _, _)
\* a builder that leaves out the failed servers of every pool
WithPointsEjecting(c, server_index, retry, t) ==
    IF server_index = nserver THEN c
    ELSE IF retry[server_index] > t
    THEN WithPointsEjecting(c, server_index + 1, retry, t)
    ELSE WithPointsEjecting(AddPoints(c, server_index, 0, 0, PointCount(weight[server_index])),
                            server_index + 1, retry, t)

RECURSIVE WithPoints(_, _, _, _)
\* the loop over the servers from server_index on: the entries written
WithPoints(c, server_index, retry, t) ==
    IF server_index = nserver THEN c
    ELSE IF auto_eject_hosts /\ retry[server_index] > t
    THEN WithPoints(c, server_index + 1, retry, t)
    ELSE WithPoints(AddPoints(c, server_index, 0, 0, PointCount(weight[server_index])),
                    server_index + 1, retry, t)

\* ------------------------------------------------------------------------
\* ketamap_update_without_ketama_points

\* (uint32_t) of a double: of NaN the conversion is undefined
DblToU32(d) == IF d.kind = "nan" THEN nan_u32 ELSE DblTrunc(d)

\* uint32_t weight = server->weight / 100.0 + 0.5
UnitWeight(w) == RoundHundredth(w)

\* a shrink that keeps the scaled part of the value instead of removing it
ShrinkTo(value, scale) == DblToU32(DblMul(Dbl(value, 0), scale))

\* value -= (double) value * scale
Shrink(value, scale) ==
    DblToU32(DblSub(Dbl(value, 0), DblMul(Dbl(value, 0), scale)))

RECURSIVE WithoutPointsAll(_, _, _, _, _)
\* a single-point builder that takes the failed servers too
WithoutPointsAll(c, total, server_index, retry, t) ==
    IF server_index = nserver THEN [c |-> c, total_weight |-> total]
    ELSE LET w     == UnitWeight(weight[server_index])
             scale == DblDivInt(w, total + w)
         IN  WithoutPointsAll(
                 [i \in 1..Len(c) |-> Entry(c[i].index, Shrink(c[i].value, scale))]
                 \o <<Entry(server_index, KETAMAP_DISPATCH_MAX_POINT)>>,
                 total + w, server_index + 1, retry, t)

RECURSIVE WithoutPoints(_, _, _, _, _)
\* the loop over the servers from server_index on: the entries written and
\* the total weight
WithoutPoints(c, total, server_index, retry, t) ==
    IF server_index = nserver THEN [c |-> c, total_weight |-> total]
    ELSE IF auto_eject_hosts /\ retry[server_index] > t
    THEN WithoutPoints(c, total, server_index + 1, retry, t)
    ELSE LET w     == UnitWeight(weight[server_index])
             scale == DblDivInt(w, total + w)
         IN  WithoutPoints(
                 [i \in 1..Len(c) |-> Entry(c[i].index, Shrink(c[i].value, scale))]
                 \o <<Entry(server_index, KETAMAP_DISPATCH_MAX_POINT)>>,
                 total + w, server_index + 1, retry, t)

\* ------------------------------------------------------------------------
\* ketamap_update

\* total_ncontinuum += pool->ketama_points * server->weight / 100.0 + 0.5
\* (total_ncontinuum is an integer: adding it before the conversion adds it to
\* the integer part)
AddPointCount(total, w) == total + RoundHundredth(ketama_points * w)

\* a dead server whose retry time is the only one seen so far
SoonerFirstSeen(retry, rebuild) == rebuild = 0

\* if (pool->next_rebuild == 0LL || server->next_retry < pool->next_rebuild)
Sooner(retry, rebuild) == rebuild = 0 \/ retry < rebuild

RECURSIVE Scan(_, _, _)
\* the loop that counts the live servers, from server_index on
Scan(server_index, t, acc) ==
    IF server_index = nserver THEN acc
    ELSE LET retry == acc.next_retry[server_index]
             a1 == IF auto_eject_hosts
                   THEN IF retry <= t
                        THEN [acc EXCEPT !.next_retry[server_index] = 0,
                                         !.nlive_server = @ + 1]
                        ELSE IF Sooner(retry, acc.next_rebuild)
                        THEN [acc EXCEPT !.next_rebuild = retry]
                        ELSE acc
                   ELSE [acc EXCEPT !.nlive_server = @ + 1]
             a2 == IF ~auto_eject_hosts \/ a1.next_retry[server_index] <= t
                   THEN [a1 EXCEPT !.total_ncontinuum =
                                       AddPointCount(@, weight[server_index])]
                   ELSE a1
         IN  Scan(server_index + 1, t, a2)

\* if (!pool->auto_eject_hosts || server->next_retry <= now): the servers a
\* rebuild at time t counts as live
LiveServers(retry, t) == {s \in Server : ~auto_eject_hosts \/ retry[s] <= t}

\* what memory that is not the pool's may hold, read as an entry
Foreign == {Entry(nserver, << >>)}

\* The entries pool->continuum[0 .. ncontinuum - 1] after a builder wrote the
\* entries c into storage allocated for size entries: the entries written
\* past the end of the storage are in memory that is not the pool's.
Stored(c, size) ==
    { [i \in 1..Len(c) |-> IF i \in DOMAIN lost THEN lost[i] ELSE c[i]] :
        lost \in UNION { [past -> Foreign] : past \in SUBSET ((size + 1)..Len(c)) } }

NoRoute == 0 - 1

\* a rebuild that goes on without live servers
NoLiveNever(r) == FALSE

\* if (nlive_server == 0)
NoLive(r) == r.nlive_server = 0

\* if (nlive_server > pool->nserver_continuum)
Grows(r) == r.nlive_server > nserver_continuum

\* a capacity of one server more than the live ones
NewCapacityPadded(r) == r.nlive_server + 1

\* uint32_t nserver_continuum = nlive_server;
NewCapacity(r) == r.nlive_server

\* the # entries nc_realloc is asked for
ReallocSize(r) ==
    IF ketama_points > 0 THEN r.total_ncontinuum ELSE NewCapacity(r)

\* a builder that adds to the entries and to the total weight of the rebuild
\* before
BuildOver(r) ==
    IF ketama_points > 0
    THEN [c |-> WithPoints(continuum, 0, r.next_retry, now),
          total_weight |-> total_weight]
    ELSE WithoutPoints(continuum, total_weight, 0, r.next_retry, now)

\* the builder ketamap_update ends with: the entries it writes and the total
\* weight it leaves
Build(r) ==
    IF ketama_points > 0
    THEN [c |-> WithPoints(<< >>, 0, r.next_retry, now),
          total_weight |-> total_weight]
    ELSE WithoutPoints(<< >>, 0, 0, r.next_retry, now)

\* ketamap_update, after it got the time, with r the result of its loop over
\* the servers
Update(r) ==
    /\ next_rebuild' = r.next_rebuild
    /\ next_retry' = r.next_retry
    /\ nlive_server' = r.nlive_server
    /\ UNCHANGED <<config, now, key_hash, routed>>
    /\ \/ \* no live servers
          /\ NoLive(r)
          /\ rstatus' = "NC_OK"
          /\ UNCHANGED <<continuum, nalloc, ncontinuum, nserver_continuum,
                         total_weight>>
       \/ \* nc_realloc returns NULL
          /\ ~NoLive(r)
          /\ Grows(r)
          /\ rstatus' = "NC_ENOMEM"
          /\ UNCHANGED <<continuum, nalloc, ncontinuum, nserver_continuum,
                         total_weight>>
       \/ /\ ~NoLive(r)
          /\ LET size == IF Grows(r) THEN ReallocSize(r) ELSE nalloc
             IN  /\ nalloc' = size
                 /\ nserver_continuum' =
                        IF Grows(r) THEN NewCapacity(r) ELSE nserver_continuum
                 /\ \E built \in {Build(r)} :
                        /\ continuum' \in Stored(built.c, size)
                        /\ ncontinuum' = Len(built.c)
                        /\ total_weight' = built.total_weight
                 /\ rstatus' = "NC_OK"

ketamap_update ==
    \/ \* now = nc_usec_now(); if (now < 0) return NC_ERROR;
       /\ rstatus' = "NC_ERROR"
       /\ UNCHANGED <<config, next_retry, now, pool, key_hash, routed>>
    \/ \E r \in { Scan(0, now, [nlive_server |-> 0, next_rebuild |-> 0,
                                next_retry |-> next_retry,
                                total_ncontinuum |-> 0]) } : Update(r)

\* ------------------------------------------------------------------------
\* The operations of a pool.

\* server_pool_update: the rebuild of the continuum
Rebuild == ketamap_update /\ UNCHANGED builds

\* what a rebuild left: the servers it counted as live, the entries at
\* pool->continuum, their number and the # entries of the storage
Left(live, c, n, size) == [live |-> live, c |-> c, n |-> n, nalloc |-> size]

\* the last MaxBuilds elements of h
Latest(h) ==
    IF Len(h) > MaxBuilds THEN SubSeq(h, Len(h) - MaxBuilds + 1, Len(h)) ELSE h

\* the rebuild, with the history of the rebuilds that returned NC_OK kept
RebuildKept ==
    /\ ketamap_update
    /\ builds' = IF rstatus' = "NC_OK"
                 THEN Latest(Append(builds,
                          Left(LiveServers(next_retry', now), continuum',
                               ncontinuum', nalloc')))
                 ELSE builds

\* the clock advances
Tick ==
    /\ now < MaxTime
    /\ now' = now + 1
    /\ UNCHANGED <<config, next_retry, pool, rstatus, key_hash, routed, builds>>

\* a server fails: it is not to be retried before a later time
ServerFail ==
    /\ \E s \in Server, t \in (now + 1)..(MaxTime + 1) :
           next_retry' = [next_retry EXCEPT ![s] = t]
    /\ UNCHANGED <<config, now, pool, rstatus, key_hash, routed, builds>>

\* a server is taken back at once
ServerRestore ==
    /\ \E s \in Server :
           /\ next_retry[s] # 0
           /\ next_retry' = [next_retry EXCEPT ![s] = 0]
    /\ UNCHANGED <<config, now, pool, rstatus, key_hash, routed, builds>>

\* a key is dispatched on the continuum
Dispatch ==
    /\ ncontinuum # 0
    /\ routed = NoRoute
    /\ routed' = ketamap_dispatch(continuum, ncontinuum, key_hash)
    /\ UNCHANGED <<config, next_retry, now, pool, rstatus, key_hash, builds>>

\* ------------------------------------------------------------------------
\* The pools.

RECURSIVE Chain(_, _, _, _)
\* the arguments the hash function of a server is called with for n points
Chain(f, point, i, n) ==
    IF i = n THEN {} ELSE {point} \cup Chain(f, f[point], i + 1, n)

\* a pool of NServer + 1 servers has this hash function
Rotate(s, v) == (v + s + 1) % (MaxHash + 1)

\* a pool before its first rebuild
Fresh ==
    /\ next_retry = [s \in Server |-> 0]
    /\ now = 0
    /\ continuum = << >>
    /\ nalloc = 0
    /\ ncontinuum = 0
    /\ nserver_continuum = 0
    /\ nlive_server = 0
    /\ total_weight = 0
    /\ next_rebuild = 0
    /\ rstatus = "none"
    /\ key_hash = << >>
    /\ routed = NoRoute
    /\ builds = << >>

Configured ==
    /\ ketama_points \in 0..MaxKetamaPoints
    /\ nserver \in {NServer, NServer + 1}
    /\ auto_eject_hosts \in BOOLEAN
    /\ weight \in [Server -> Weights]
    /\ crc_add \in [Server -> [HashValue -> HashValue]]
    /\ nserver > NServer =>
           \A s \in Server : \A v \in HashValue : crc_add[s][v] = Rotate(s, v)
    \* the hash function matters only where a build calls it
    /\ nserver = NServer =>
           \A s \in Server : \A v \in HashValue :
               v \notin Chain(crc_add[s], 0, 0, PointCount(weight[s]))
                   => crc_add[s][v] = 0
    /\ nan_u32 \in NaNToU32
    \* the conversion of NaN matters only in single-point builds that shrink
    \* by 0 / 0
    /\ (ketama_points > 0 \/ Cardinality({s \in Server : UnitWeight(weight[s]) = 0}) < 2)
           => nan_u32 = << >>

Init == Configured /\ nserver = NServer /\ Fresh

Next ==
    \/ Rebuild
    \/ Tick
    \/ ServerFail
    \/ ServerRestore

Spec == Init /\ [][Next]_vars

\* The pools that eject their failed servers, at one time, with the history
\* of their rebuilds.
InitKept == Configured /\ nserver = NServer /\ auto_eject_hosts /\ Fresh

NextKept ==
    \/ RebuildKept
    \/ ServerFail
    \/ ServerRestore

SpecKept == InitKept /\ [][NextKept]_vars

\* The same pools as time advances.
NextTimed ==
    \/ RebuildKept
    \/ Tick
    \/ ServerFail
    \/ ServerRestore

SpecTimed == InitKept /\ [][NextTimed]_vars

RECURSIVE Ascending(_, _)
\* the ascending sequences of n values of 0 .. MaxHash and the maximum point,
\* none below lowest
Ascending(n, lowest) ==
    IF n = 0 THEN {<< >>}
    ELSE UNION { { <<v>> \o rest : rest \in Ascending(n - 1, v) } :
                 v \in lowest..(MaxHash + 1) }

\* the value of a continuum entry numbered v
PointOf(v) == IF v > MaxHash THEN KETAMAP_DISPATCH_MAX_POINT ELSE FromInt(v)

\* The multi-point pools of one more server that eject their failed servers.
InitWide ==
    Configured /\ nserver > NServer /\ ketama_points > 0 /\ auto_eject_hosts /\ Fresh

SpecWide == InitWide /\ [][Next]_vars

\* The single-point pools of one server more.
InitSingle ==
    Configured /\ nserver > NServer /\ ketama_points = 0 /\ auto_eject_hosts /\ Fresh

\* at one time
NextSingle ==
    \/ Rebuild
    \/ ServerFail
    \/ ServerRestore

SpecSingle == InitSingle /\ [][NextSingle]_vars

\* dispatch alone: a sorted continuum and a hash
InitDispatch ==
    /\ ketama_points = 1
    /\ nserver = NServer
    /\ auto_eject_hosts = FALSE
    /\ weight = [s \in Server |-> 100]
    /\ crc_add = [s \in Server |-> [v \in HashValue |-> 0]]
    /\ nan_u32 = << >>
    /\ next_retry = [s \in Server |-> 0]
    /\ now = 0
    /\ \E n \in 1..MaxLen : \E values \in Ascending(n, 0) :
           /\ continuum = [i \in 1..n |-> Entry((i - 1) % nserver, PointOf(values[i]))]
           /\ ncontinuum = n
           /\ nalloc = n
    /\ nserver_continuum = nserver
    /\ nlive_server = nserver
    /\ total_weight = 0
    /\ next_rebuild = 0
    /\ rstatus = "NC_OK"
    /\ routed = NoRoute
    /\ builds = << >>
    /\ key_hash \in {PointOf(v) : v \in 0..(MaxHash + 1)}

NextDispatch == Dispatch

SpecDispatch == InitDispatch /\ [][NextDispatch]_vars

\* ------------------------------------------------------------------------
\* The properties of the continuum.

\* the values of the entries c[0 .. n - 1] ascend
Sorted(c, n) == \A i \in 1..(n - 1) : Leq(c[i].value, c[i + 1].value)

\* hashes that stand for every hash there is: the least one, and for each
\* value among c[0 .. n - 1] that value and the next one
Probes(c, n) ==
    {<< >>} \cup {c[i].value : i \in 1..n}
    \cup {Add(c[i].value, <<1>>) :
              i \in {j \in 1..n : c[j].value # KETAMAP_DISPATCH_MAX_POINT}}

\* the entry dispatch returns for hash
Routed(c, n, hash) == c[ketamap_dispatch(c, n, hash) + 1]

\* C1: after a rebuild that returned NC_OK, in either mode and whatever
\* servers failed, came back and were rebuilt before, the values of the
\* entries continuum[0 .. ncontinuum - 1] ascend.
C1_SortedAfterRebuild == rstatus = "NC_OK" => Sorted(continuum, ncontinuum)

\* the lowest position of c[0 .. n - 1] whose value is at least hash, or 0
\* when no value is
LowestAtLeast(c, n, hash) ==
    LET at == {i \in 0..(n - 1) : Leq(hash, c[i + 1].value)}
    IN  IF at = {} THEN 0 ELSE CHOOSE i \in at : \A j \in at : i <= j

\* C2: on an ascending continuum of ncontinuum > 0 entries, dispatch returns
\* for every hash the entry at the lowest position whose value is at least the
\* hash, and the entry at position 0 when the hash is above every value.
C2_DispatchLowestAtLeast ==
    routed # NoRoute => routed = LowestAtLeast(continuum, ncontinuum, key_hash)

\* a dispatch of a hash above every value wrapped around a continuum of
\* several entries
C2_Wrapped ==
    /\ routed = 0
    /\ ncontinuum > 1
    /\ \A i \in 1..ncontinuum : Less(continuum[i].value, key_hash)

\* the positions (from 1) of the entries c[0 .. n - 1] that are inside a
\* storage of size entries
InStorage(n, size) == 1..Min(n, size)

RECURSIVE PointsFrom(_, _, _, _)
\* the entries a multi-point rebuild makes for server s, in the order it
\* inserts them
PointsFrom(s, point, i, count) ==
    IF i = count THEN << >>
    ELSE LET p == hash_crc32a_add(s, point)
         IN  <<Entry(s, FromInt(p))>> \o PointsFrom(s, p, i + 1, count)

RECURSIVE Generated(_, _)
\* the entries a multi-point rebuild makes for the servers of live from s on,
\* in the order it inserts them
Generated(live, s) ==
    IF s = nserver THEN << >>
    ELSE (IF s \in live THEN PointsFrom(s, 0, 0, PointCount(weight[s])) ELSE << >>)
         \o Generated(live, s + 1)

\* the entries of seq whose value is v
Tied(seq, v) == SelectSeq(seq, LAMBDA e : e.value = v)

\* C4: when a multi-point rebuild makes two or more points of one value,
\* their entries are next to each other in the continuum, in the order they
\* were inserted, and dispatch on that value returns the one inserted first.
C4_TiedPointsInOrder ==
    (ketama_points > 0 /\ builds # << >> /\ builds[Len(builds)].live # {}) =>
        LET b    == builds[Len(builds)]
            made == Generated(b.live, 0)
        IN  \A v \in {made[i].value : i \in DOMAIN made} :
                LET tied  == Tied(made, v)
                    first == ketamap_dispatch(b.c, b.n, v)
                IN  Len(tied) >= 2 =>
                        /\ first + Len(tied) <= b.n
                        /\ \A k \in 1..Len(tied) : b.c[first + k] = tied[k]
                        /\ \A i \in 1..b.n :
                               b.c[i].value = v => i \in (first + 1)..(first + Len(tied))

\* C5: in multi-point mode, of two rebuilds whose live servers differ by
\* one server X only, every hash the one with X dispatches to a server other
\* than X is dispatched to the same server by the one without X.
C5_MinimalRemapping ==
    (ketama_points > 0 /\ Len(builds) = 2) =>
        \A X \in Server : \A k \in 1..2 :
            LET with    == builds[k]
                without == builds[3 - k]
            IN  (/\ X \in with.live
                 /\ without.live = with.live \ {X}
                 /\ without.live # {}
                 /\ with.n > 0
                 /\ without.n > 0) =>
                    \A hash \in Probes(with.c, with.n) \cup Probes(without.c, without.n) :
                        LET server == Routed(with.c, with.n, hash).index
                        IN  server # X =>
                                Routed(without.c, without.n, hash).index = server

\* the entries of server s among the first n entries of c, in their order
Owned(c, n, s) == SelectSeq(SubSeq(c, 1, n), LAMBDA e : e.index = s)

C7_FailureKeepsPool ==
    [][(Rebuild /\ rstatus' \in {"NC_ERROR", "NC_ENOMEM"}) =>
         UNCHANGED <<next_rebuild, continuum, ncontinuum, total_weight>>]_vars

\* C8: the # entries the continuum storage is allocated for never decreases
\* from one rebuild to the next.
C8_StorageNeverShrinks == [][nalloc' >= nalloc]_vars

\* C9, as the spec states it: after every rebuild ncontinuum <=
\* nserver_continuum, and nserver_continuum changes only in a rebuild whose
\* # live servers is above it, to that number.
C9_LenWithinCapacity ==
    [][/\ Rebuild => ncontinuum' <= nserver_continuum'
       /\ nserver_continuum' # nserver_continuum =>
              /\ Rebuild
              /\ nlive_server' > nserver_continuum
              /\ nserver_continuum' = nlive_server']_vars

\* C9, amended: after every rebuild that returned NC_OK nlive_server <=
\* nserver_continuum, and in single-point mode after every rebuild ncontinuum
\* <= nserver_continuum (in multi-point mode ncontinuum counts points and
\* nserver_continuum servers); nserver_continuum changes only in a rebuild
\* whose # live servers is above it, to that number.
C9_LiveCountWithinCapacity ==
    [][/\ Rebuild =>
              /\ rstatus' = "NC_OK" => nlive_server' <= nserver_continuum'
              /\ ketama_points = 0 => ncontinuum' <= nserver_continuum'
       /\ nserver_continuum' # nserver_continuum =>
              /\ Rebuild
              /\ nlive_server' > nserver_continuum
              /\ nserver_continuum' = nlive_server']_vars

\* a multi-point rebuild left more points, all inside the storage, than the
\* capacity counts servers
C9_MorePointsThanServers ==
    /\ rstatus = "NC_OK"
    /\ nlive_server = nserver_continuum
    /\ nserver_continuum > 0
    /\ ncontinuum > nserver_continuum
    /\ ncontinuum <= nalloc

\* C10: a rebuild that finds no live server returns NC_OK and leaves the
\* continuum, ncontinuum and the storage as they were: it sets nlive_server
\* (to 0) and next_rebuild only.
C10_NoLiveServers ==
    [][(Rebuild /\ rstatus' # "NC_ERROR" /\ LiveServers(next_retry, now) = {}) =>
         /\ rstatus' = "NC_OK"
         /\ nlive_server' = 0
         /\ UNCHANGED <<continuum, ncontinuum, nalloc, nserver_continuum,
                        total_weight, next_retry, config>>]_vars

\* a rebuild found no live server and left the continuum of an earlier rebuild
C10_StaleContinuum ==
    /\ rstatus = "NC_OK"
    /\ nlive_server = 0
    /\ next_rebuild > 0
    /\ ncontinuum > 0

\* the servers a rebuild at time t classifies dead
DeadServers(retry, t) == Server \ LiveServers(retry, t)

\* the smallest retry time among the servers of the set dead, 0 when it is empty
EarliestRetry(retry, dead) ==
    IF dead = {} THEN 0
    ELSE CHOOSE r \in {retry[s] : s \in dead} : \A s \in dead : r <= retry[s]

\* C11: after every rebuild that obtains the time, whatever it returns,
\* next_rebuild is the smallest next_retry among the servers the rebuild
\* classified dead (auto_eject_hosts set and next_retry > now) and 0 when none
\* is dead; a dead server keeps its next_retry, and under auto_eject_hosts
\* every live server has its next_retry cleared to 0.
C11_NextRebuildIsEarliestRetry ==
    [][(Rebuild /\ rstatus' # "NC_ERROR") =>
         LET dead == DeadServers(next_retry, now) IN
         /\ next_rebuild' = EarliestRetry(next_retry, dead)
         /\ \A s \in dead : next_retry'[s] = next_retry[s]
         /\ auto_eject_hosts =>
                \A s \in Server \ dead : next_retry'[s] = 0]_vars

\* a rebuild classified two servers dead and took the retry time of the second
\* one, the earlier of the two
C11_LaterServerRetriesFirst ==
    /\ rstatus = "NC_OK"
    /\ auto_eject_hosts
    /\ next_rebuild > now
    /\ \E s \in Server : \E u \in Server :
          /\ s < u
          /\ next_retry[u] = next_rebuild
          /\ next_retry[s] > next_rebuild

\* C12: a rebuild is idempotent on a pool whose servers are all live and
\* unchanged: after a successful rebuild that counted every server live, a
\* second rebuild of the same pool that finds every server live leaves
\* ncontinuum and the sequence of (index, value) entries, and total_weight, as
\* the first one left them, in multi-point and in single-point mode.
C12_RebuildTwiceSameContinuum ==
    [][(/\ Rebuild
        /\ rstatus = "NC_OK"
        /\ nlive_server = nserver
        /\ LiveServers(next_retry, now) = Server
        /\ rstatus' # "NC_ERROR") =>
         /\ rstatus' = "NC_OK"
         /\ ncontinuum' = ncontinuum
         /\ continuum' = continuum
         /\ total_weight' = total_weight
         /\ nlive_server' = nserver]_vars

\* a rebuild of a pool with auto_eject_hosts counted every server live and
\* left several entries, and every server is still live
C12_AllLiveRebuilt ==
    /\ rstatus = "NC_OK"
    /\ auto_eject_hosts
    /\ nlive_server = nserver
    /\ LiveServers(next_retry, now) = Server
    /\ ncontinuum > nserver
    /\ Len(continuum) = ncontinuum

\* C13: writes stay inside the allocated storage: the number of entries the
\* builder wrote in the last rebuild (ncontinuum) never exceeds the number of
\* entries the continuum storage was most recently allocated for.
C13_WritesInsideStorage ==
    ncontinuum <= nalloc

\* C14: a successful rebuild that counts a live server establishes what the
\* dispatch needs: ncontinuum > 0, and in single-point mode total_weight > 0
\* (the modulus of ketamap_dispatch0), whatever the positive weights of the
\* servers and whatever ketama_points.
C14_DispatchPreconditions ==
    (rstatus = "NC_OK" /\ nlive_server > 0) =>
        /\ ncontinuum > 0
        /\ ketama_points = 0 => total_weight > 0

\* C15: after a successful multi-point rebuild each live server owns exactly
\* round(ketama_points * weight / 100) of the ncontinuum entries, every entry
\* carries the position of its server in the server array, no entry belongs to
\* a server the rebuild classified dead, and ncontinuum is the sum of the
\* counts over the live servers.
C15_PointsPerLiveServer ==
    [][(Rebuild /\ ketama_points > 0 /\ rstatus' = "NC_OK" /\ nlive_server' > 0) =>
         LET live == LiveServers(next_retry, now) IN
         /\ \A s \in Server :
                Len(Owned(continuum', ncontinuum', s))
                    = IF s \in live THEN RoundHundredth(ketama_points * weight[s])
                      ELSE 0
         /\ \A i \in 1..ncontinuum' : continuum'[i].index \in live
         /\ ncontinuum' = Len(Generated(live, 0))]_vars

RECURSIVE InOrder(_, _)
\* the servers of live from s on, in ascending order
InOrder(live, s) ==
    IF s = nserver THEN << >>
    ELSE (IF s \in live THEN <<s>> ELSE << >>) \o InOrder(live, s + 1)

\* C16: after a successful single-point rebuild the continuum holds exactly
\* one entry per live server, in ascending order of the server index,
\* ncontinuum equals nlive_server, and the entry of the last live server has
\* the value 0xffffffff exactly.
C16_OneEntryPerLiveServer ==
    [][(Rebuild /\ ketama_points = 0 /\ rstatus' = "NC_OK" /\ nlive_server' > 0) =>
         LET live == LiveServers(next_retry, now) IN
         /\ ncontinuum' = nlive_server'
         /\ nlive_server' = Cardinality(live)
         /\ Len(continuum') = ncontinuum'
         /\ [i \in 1..ncontinuum' |-> continuum'[i].index] = InOrder(live, 0)
         /\ continuum'[ncontinuum'].value = <<7295, 9496, 42>>]_vars

\* a single-point rebuild left out a dead server that stands between two live
\* ones, and the entry of the first live server was shrunk below the last
C16_DeadServerBetween ==
    /\ ketama_points = 0
    /\ rstatus = "NC_OK"
    /\ ncontinuum = 2
    /\ nlive_server = 2
    /\ continuum[1].index + 1 < continuum[2].index
    /\ next_retry[continuum[1].index + 1] > now
    /\ Less(continuum[1].value, continuum[2].value)

\* the part of the hash space the entry at position k (from 1) of c owns: its
\* value minus the value of the entry before it, or minus 0 for the first
Span(c, k) == Sub(c[k].value, IF k = 1 THEN << >> ELSE c[k - 1].value)

\* |a - b| <= d
Within(a, b, d) == Leq(a, Add(b, d)) /\ Leq(b, Add(a, d))

\* C17: single-point decay: after a single-point rebuild over live servers of
\* unit weights w_1 .. w_n (w = round(weight / 100)) with a positive sum W,
\* the entries ascend and the span of the k-th live server is within n (one
\* unit of hash space per entry) of 0xffffffff * w_k / W: span * W differs
\* from 0xffffffff * w_k by at most n * W.
C17_SpanProportionalToWeight ==
    [][(Rebuild /\ ketama_points = 0 /\ rstatus' = "NC_OK" /\ nlive_server' > 0
        /\ total_weight' > 0) =>
         \A k \in 1..ncontinuum' :
             LET w == RoundHundredth(weight[continuum'[k].index]) IN
             /\ k > 1 => Leq(continuum'[k - 1].value, continuum'[k].value)
             /\ Within(MulSmall(Span(continuum', k), total_weight'),
                       MulSmall(<<7295, 9496, 42>>, w),
                       FromInt(ncontinuum' * total_weight'))]_vars

\* three live servers of weight 100: each owns a third of 0xffffffff, the
\* first one a unit less than the others
C17_EqualThirds ==
    /\ ketama_points = 0
    /\ rstatus = "NC_OK"
    /\ ncontinuum = 3
    /\ \A s \in Server : weight[s] = 100
    /\ total_weight = 3
    /\ Span(continuum, 1) = <<5764, 3165, 14>>
    /\ Span(continuum, 2) = <<5766, 3165, 14>>
    /\ Span(continuum, 3) = <<5765, 3165, 14>>

\* a hash that folds to crc32: crc32 in bits 16 to 30, bit 31 and the low 16
\* bits clear (FALSE) or set (TRUE)
Unfolded(crc32, other) ==
    IF other
    THEN Add(ShiftLeft(FromInt(crc32), 16), Add(ShiftLeft(<<1>>, 31), FromInt(Pow2(16) - 1)))
    ELSE ShiftLeft(FromInt(crc32), 16)

\* a hash whose folded point modulo total is p: the plain one for an even p,
\* one with the other bits set and the point above total for an odd p
Folding(p, total) ==
    IF p % 2 = 0 THEN Unfolded(p, FALSE) ELSE Unfolded(p + total, TRUE)

RECURSIVE WeightOwner(_, _, _, _)
\* the position k (from 1) in c of the live server whose unit weights
\* w_1 + ... + w_(k-1) <= p < w_1 + ... + w_k, with below the sum before k
WeightOwner(c, k, p, below) ==
    LET upto == below + RoundHundredth(weight[c[k].index])
    IN  IF p < upto THEN k ELSE WeightOwner(c, k + 1, p, upto)

\* C18: after a successful single-point rebuild with unit weights w_1 .. w_n
\* of sum W = total_weight > 0, ketamap_dispatch0 sends a hash whose folded
\* point p = ((hash >> 16) & 0x7fff) % W lies in
\* [w_1 + ... + w_(k-1), w_1 + ... + w_k) to the k-th live server, so each live
\* server receives exactly w_k of the W folded points, and the rescaled point
\* (the largest is that of p = W - 1) stays below 0xffffffff, so that adding 1
\* does not wrap around.
C18_WeightedRouting ==
    (ketama_points = 0 /\ rstatus # "none" /\ ncontinuum > 0 /\ total_weight > 0) =>
        /\ \A p \in 0..(total_weight - 1) :
               ketamap_dispatch0(continuum, ncontinuum,
                                 Folding(p, total_weight), total_weight)
                   = {WeightOwner(continuum, 1, p, 0) - 1}
        /\ \A k \in 1..ncontinuum :
               Cardinality({p \in 0..(total_weight - 1) :
                               WeightOwner(continuum, 1, p, 0) = k})
                   = RoundHundredth(weight[continuum[k].index])
        /\ \A point \in Rescale(total_weight - 1, total_weight) :
               Less(point, <<7295, 9496, 42>>)

\* three live servers of weights 200, 100 and 200: a hash that folds to 7,
\* point 2 of 5, goes to the second one
C18_MiddleServerOnePoint ==
    /\ ketama_points = 0
    /\ rstatus = "NC_OK"
    /\ ncontinuum = 3
    /\ total_weight = 5
    /\ [k \in 1..3 |-> weight[continuum[k].index]] = <<200, 100, 200>>
    /\ Fold(Unfolded(7, TRUE)) = 7
    /\ ketamap_dispatch0(continuum, ncontinuum, Unfolded(7, TRUE), total_weight) = {1}

\* the elements of the sequence seq
Range(seq) == {seq[i] : i \in 1..Len(seq)}

\* the last successful rebuild is the last rebuild called, it left
\* next_rebuild > 0, and the servers are as it left them: the servers it
\* counted live have next_retry = 0 and the earliest next_retry of the others
\* is next_rebuild
Settled ==
    /\ rstatus = "NC_OK"
    /\ builds # << >>
    /\ next_rebuild > 0
    /\ {s \in Server : next_retry[s] = 0} = builds[Len(builds)].live
    /\ EarliestRetry(next_retry, Server \ builds[Len(builds)].live) = next_rebuild

\* the continuum c[0 .. n - 1] holds the entries a rebuild makes for the live
\* server s
Included(c, n, s) ==
    IF ketama_points > 0
    THEN /\ Len(Owned(c, n, s)) = RoundHundredth(ketama_points * weight[s])
         /\ Range(Owned(c, n, s))
                = Range(PointsFrom(s, 0, 0, RoundHundredth(ketama_points * weight[s])))
    ELSE Len(Owned(c, n, s)) = 1

\* C19: next_rebuild is the re-admission deadline: when a rebuild left
\* next_rebuild = r > 0 and the servers are as it left them, a successful
\* rebuild at a time before r counts the same servers live and leaves the
\* same continuum, and a successful rebuild at a time from r on counts at
\* least one server live that was dead, and its entries are in the continuum.
C19_NextRebuildIsDeadline ==
    [][(RebuildKept /\ Settled /\ rstatus' = "NC_OK") =>
         LET before == builds[Len(builds)].live
             live   == LiveServers(next_retry, now)
         IN  IF now < next_rebuild
             THEN /\ live = before
                  /\ ncontinuum' = ncontinuum
                  /\ continuum' = continuum
                  /\ next_rebuild' = next_rebuild
             ELSE \E s \in live \ before :
                      Included(continuum', ncontinuum', s)]_vars

\* C20: without auto_eject_hosts every rebuild that obtains the time treats
\* every server as live whatever its next_retry: nlive_server is the number
\* of servers, next_rebuild is 0 and no next_retry is modified, and when the
\* rebuild succeeds every server has its entries in the continuum.
C20_NoEjectAllLive ==
    [][(Rebuild /\ ~auto_eject_hosts /\ rstatus' # "NC_ERROR") =>
         /\ nlive_server' = nserver
         /\ next_rebuild' = 0
         /\ next_retry' = next_retry
         /\ rstatus' = "NC_OK" =>
                /\ \A s \in Server : Included(continuum', ncontinuum', s)
                /\ \A i \in 1..ncontinuum' : continuum'[i].index \in Server
                /\ ncontinuum' = IF ketama_points > 0
                                 THEN Len(Generated(Server, 0)) ELSE nserver]_vars

\* a multi-point pool without auto_eject_hosts was rebuilt while a server had
\* a next_retry in the future: the server has its points in the continuum
C20_FailedServerStillRouted ==
    /\ ~auto_eject_hosts
    /\ ketama_points > 0
    /\ rstatus = "NC_OK"
    /\ nlive_server = nserver
    /\ next_rebuild = 0
    /\ \E s \in Server :
          /\ next_retry[s] > now
          /\ Owned(continuum, ncontinuum, s) # << >>
          /\ Included(continuum, ncontinuum, s)

====
